---------------------------- MODULE Spec2Model ----------------------------
(***************************************************************************)
(* Model of the URL redirect extension's background service                *)
(* (src/src/background/background.ts) and of the StorageManager it uses    *)
(* (src/src/popup/Popup.tsx, lines 476-606).                               *)
(*                                                                         *)
(* Strings are sequences of one-character strings, so that startsWith,     *)
(* includes, replace, concatenation, === and regular-expression matching   *)
(* are computed character by character as the code computes them.          *)
(***************************************************************************)
EXTENDS Integers, Sequences, FiniteSets, TLC

VARIABLES
    call,           \* the pending direct call of a pure function: its arguments
    ret,            \* its result, NotReturned before the call has run
    redirectedTabs, \* BackgroundService.redirectedTabs
    syncData,       \* chrome.storage.sync, the value under STORAGE_KEY
    localData,      \* chrome.storage.local, the value under STORAGE_KEY
    nav,            \* the handleNavigation invocations, each with its locals
    msgs,           \* the handleMessage invocations, each with its locals
    browserNav,     \* per tab, the navigations the browser has started on a
                    \* chrome.tabs.update call and not yet announced
    closedTabs,     \* the tabs that have been closed
    navCalls,       \* the chrome.tabs.update calls that were made
    notifications,  \* the chrome.notifications.create calls that were made
    events,         \* the number of navigation events the user has caused
    ownNavPending   \* the tabs for which chrome.tabs.update was called and
                    \* that have had no main-frame navigation event since

pureVars == <<call, ret>>

serviceVars == <<redirectedTabs, syncData, localData, nav, msgs, browserNav,
                 closedTabs, navCalls, notifications, events, ownNavPending>>

vars == <<call, ret, redirectedTabs, syncData, localData, nav, msgs, browserNav,
          closedTabs, navCalls, notifications, events, ownNavPending>>

----------------------------------------------------------------------------
(* The state after construction: the constructor registers the listeners   *)
(* and leaves redirectedTabs empty; nothing has been stored, called or      *)
(* delivered yet.                                                           *)

Tabs == {1, 2}

\* No value under STORAGE_KEY: `result[this.STORAGE_KEY]` is undefined.
NoData == [present |-> FALSE, settings |-> <<>>, logs |-> <<>>]

NoCall == [op |-> "none"]

NoDirectCall ==
    /\ call = NoCall
    /\ ret = [pending |-> TRUE]

ServiceConstructed ==
    /\ redirectedTabs = {}
    /\ nav = <<>>
    /\ msgs = <<>>
    /\ browserNav = [t \in Tabs |-> <<>>]
    /\ closedTabs = {}
    /\ navCalls = {}
    /\ notifications = {}
    /\ events = 0
    /\ ownNavPending = {}

EmptyStores ==
    /\ syncData = NoData
    /\ localData = NoData

----------------------------------------------------------------------------
(* Strings *)

\* All strings over the characters cs of length at most n.
RECURSIVE StringsUpTo(_, _)
StringsUpTo(cs, n) ==
    IF n = 0 THEN {<<>>}
    ELSE LET shorter == StringsUpTo(cs, n - 1)
         IN  shorter \cup {Append(s, c) : s \in {t \in shorter : Len(t) = n - 1}, c \in cs}

\* String.prototype.startsWith
StartsWith(s, p) ==
    /\ Len(p) <= Len(s)
    /\ SubSeq(s, 1, Len(p)) = p

\* String.prototype.includes for a one-character needle
Includes(s, ch) == \E i \in 1..Len(s) : s[i] = ch

\* String.prototype.replace(/ch/g, repl): every occurrence of the character
\* ch is replaced by the string repl, left to right.
RECURSIVE ReplaceAll(_, _, _)
ReplaceAll(s, ch, repl) ==
    IF s = <<>> THEN <<>>
    ELSE (IF Head(s) = ch THEN repl ELSE <<Head(s)>>) \o ReplaceAll(Tail(s), ch, repl)

----------------------------------------------------------------------------
(* new RegExp(source, "i") and RegExp.prototype.test, for sources made of  *)
(* letters, '.', '*', '?', '(' and '\'.                                    *)

\* The result of new RegExp: the exception, or the compiled terms.
SyntaxError == [error |-> TRUE, terms |-> <<>>]

Compiled(terms) == [error |-> FALSE, terms |-> terms]

AnyChar == "AnyChar"    \* the atom '.'

\* Canonicalize of the ignoreCase flag: String.prototype.toUpperCase.
Canonicalize(ch) ==
    CASE ch = "a" -> "A"
      [] ch = "b" -> "B"
      [] ch = "c" -> "C"
      [] OTHER -> ch

Quantifiers == {"*", "?"}

\* The pattern source from position i on, parsed into terms
\* [atom, quant], or SyntaxError. acc holds the terms parsed so far.
\*   '('            : a group that is never closed (no ')' in the alphabet)
\*   '*', '?' first : a quantifier with nothing to repeat
\*   '\' last       : "\ at end of pattern"
\*   x* x? x*? x??  : quantified atom, the trailing '?' makes it lazy, which
\*                    does not change whether a match exists
RECURSIVE ParseTerms(_, _, _)
ParseTerms(src, i, acc) ==
    IF i > Len(src) THEN Compiled(acc)
    ELSE IF src[i] = "(" \/ src[i] \in Quantifiers THEN SyntaxError
    ELSE IF src[i] = "\\" /\ i = Len(src) THEN SyntaxError
    ELSE LET escaped == src[i] = "\\"
             atom    == IF escaped THEN src[i + 1]
                        ELSE IF src[i] = "." THEN AnyChar ELSE src[i]
             j       == IF escaped THEN i + 2 ELSE i + 1
             hasQ    == j <= Len(src) /\ src[j] \in Quantifiers
             quant   == IF hasQ THEN src[j] ELSE "1"
             k       == IF hasQ THEN j + 1 ELSE j
             lazy    == hasQ /\ k <= Len(src) /\ src[k] = "?"
         IN  ParseTerms(src, IF lazy THEN k + 1 ELSE k,
                        Append(acc, [atom |-> atom, quant |-> quant]))

\* new RegExp(source, "i"): the compiled terms, or SyntaxError (thrown).
RegExpCompile(src) == ParseTerms(src, 1, <<>>)

\* One character against one atom under the ignoreCase flag.
AtomMatches(atom, ch) ==
    \/ atom = AnyChar
    \/ Canonicalize(atom) = Canonicalize(ch)

\* The positions reached from the positions P by consuming one character
\* that the atom matches (a position is the number of characters consumed).
StepAtom(atom, s, P) ==
    {p + 1 : p \in {q \in P : q < Len(s) /\ AtomMatches(atom, s[q + 1])}}

\* The positions reached from P by consuming the atom zero or more times.
RECURSIVE StarClosure(_, _, _)
StarClosure(atom, s, P) ==
    LET more == P \cup StepAtom(atom, s, P)
    IN  IF more = P THEN P ELSE StarClosure(atom, s, more)

\* The positions at which terms[k..] can end when started at a position of P.
RECURSIVE MatchEnds(_, _, _, _)
MatchEnds(terms, k, s, P) ==
    IF k > Len(terms) THEN P
    ELSE LET t == terms[k]
             Q == CASE t.quant = "1" -> StepAtom(t.atom, s, P)
                    [] t.quant = "?" -> P \cup StepAtom(t.atom, s, P)
                    [] t.quant = "*" -> StarClosure(t.atom, s, P)
         IN  MatchEnds(terms, k + 1, s, Q)

\* regex.test(s) without the global flag: a match starting anywhere.
RegExpTest(terms, s) == MatchEnds(terms, 1, s, 0..Len(s)) # {}

----------------------------------------------------------------------------
(* BackgroundService.findMatchingRule *)

NoRule == [null |-> TRUE]              \* findMatchingRule's null
Thrown == [thrown |-> TRUE]            \* an exception leaving the function
NotReturned == [pending |-> TRUE]      \* the call has not run yet

\* A plausible slip: the first replace call (the escaping of '.') left out.
WildcardSourceDotUnescaped(pattern) ==
    ReplaceAll(ReplaceAll(pattern, "*", <<".", "*">>), "?", <<".">>)

\* The wildcard branch's three replace calls, in the code's order.
WildcardSource(pattern) ==
    ReplaceAll(ReplaceAll(ReplaceAll(pattern, ".", <<"\\", ".">>),
                          "*", <<".", "*">>),
               "?", <<".">>)

\* The body of the try block for one enabled rule: "match" (return rule),
\* "nomatch" (fall through to the next rule) or "throw" (new RegExp throws
\* a SyntaxError).
TryMatch(rule, url) ==
    LET source == IF rule.isRegex THEN rule.pattern
                  ELSE WildcardSource(rule.pattern)
        regex  == RegExpCompile(source)
    IN  IF regex.error THEN "throw"
        ELSE IF RegExpTest(regex.terms, url) THEN "match" ELSE "nomatch"

\* A plausible slip: the loop body without its try/catch.
OnMatchErrorRethrow(outcome) == outcome

\* The catch block of the loop body: the error is logged, the loop goes on.
OnMatchError(outcome) == IF outcome = "throw" THEN "nomatch" ELSE outcome

\* A plausible slip: the isEnabled test left out.
SkipsRuleNever(rule) == FALSE

\* `if (!rule.isEnabled) continue;`
SkipsRule(rule) == ~rule.isEnabled

\* The for loop from index i on.
RECURSIVE FindFrom(_, _, _)
FindFrom(url, rules, i) ==
    IF i > Len(rules) THEN NoRule
    ELSE IF SkipsRule(rules[i]) THEN FindFrom(url, rules, i + 1)
    ELSE LET outcome == OnMatchError(TryMatch(rules[i], url))
         IN  CASE outcome = "match"   -> rules[i]
               [] outcome = "nomatch" -> FindFrom(url, rules, i + 1)
               [] outcome = "throw"   -> Thrown

findMatchingRule(url, rules) == FindFrom(url, rules, 1)

----------------------------------------------------------------------------
(* Inputs of the matcher's specification *)

MaxRules == 2

MatchUrls ==
    { <<>>, <<"a">>, <<"A">>, <<"a", "b">>, <<"A", "b">>, <<"b", "a">>,
      <<"a", ".">>, <<"b", "b", "a">>, <<"a", "a", "b">> }

\* Valid and invalid sources, in either case, with each special character.
MatchPatterns ==
    { <<>>, <<"a">>, <<"A", "B">>, <<"b", "*">>, <<"a", ".">>,
      <<"a", "?", "b">>, <<"*">>, <<"(">>, <<"a", "(">>, <<"b", "*", "*">> }

RuleFlags == [isEnabled : BOOLEAN, isRegex : BOOLEAN]

\* A rule of the rule set: ids are unique (StorageManager.generateId), here
\* the rule's position at creation.
MkRule(id, pattern, prefix, flags) ==
    [id |-> id, name |-> id, pattern |-> pattern, prefix |-> prefix,
     isEnabled |-> flags.isEnabled, isRegex |-> flags.isRegex]

MatchRuleLists ==
    UNION { { [i \in 1..n |-> MkRule(i, ps[i], <<"b">>, fs[i])] :
                ps \in [1..n -> MatchPatterns], fs \in [1..n -> RuleFlags] } :
            n \in 0..MaxRules }

InitMatch ==
    /\ call \in [op : {"findMatchingRule"}, url : MatchUrls, rules : MatchRuleLists]
    /\ ret = NotReturned
    /\ ServiceConstructed
    /\ EmptyStores

CallFindMatchingRule ==
    /\ call.op = "findMatchingRule"
    /\ ret = NotReturned
    /\ ret' = findMatchingRule(call.url, call.rules)
    /\ UNCHANGED <<call, serviceVars>>

NextMatch == CallFindMatchingRule

SpecMatch == InitMatch /\ [][NextMatch]_vars

----------------------------------------------------------------------------
(* new URL(input) without a base, URL.prototype.toString and                *)
(* URLSearchParams.prototype.set (the WHATWG URL standard), for inputs made  *)
(* of ASCII letters, digits and the characters  : / ? # = & . %             *)
(* (no whitespace, no '@', no '[', no '\': such inputs are not enumerated).  *)

Str_http  == <<"h", "t", "t", "p">>
Str_https == <<"h", "t", "t", "p", "s">>
Str_url   == <<"u", "r", "l">>

Digits == {"0", "1", "2", "3", "4", "5", "6", "7", "8", "9"}

Alpha ==
    {"a", "b", "c", "d", "e", "f", "g", "h", "i", "j", "k", "l", "m", "n",
     "o", "p", "q", "r", "s", "t", "u", "v", "w", "x", "y", "z",
     "A", "B", "C", "D", "E", "F"}

\* The index of the first character of s that is in the set stops, or
\* Len(s) + 1 when there is none.
FirstIndex(s, stops) ==
    IF \E i \in 1..Len(s) : s[i] \in stops
    THEN CHOOSE i \in 1..Len(s) :
             /\ s[i] \in stops
             /\ \A j \in 1..(i - 1) : s[j] \notin stops
    ELSE Len(s) + 1

\* s from index i to its end.
From(s, i) == SubSeq(s, i, Len(s))

\* s split at every occurrence of the character ch (n occurrences give
\* n + 1 pieces, some possibly empty).
RECURSIVE Split(_, _)
Split(s, ch) ==
    LET i == FirstIndex(s, {ch})
    IN  IF i > Len(s) THEN <<s>>
        ELSE <<SubSeq(s, 1, i - 1)>> \o Split(From(s, i + 1), ch)

\* The pieces joined with the character ch between them.
RECURSIVE Join(_, _)
Join(pieces, ch) ==
    IF pieces = <<>> THEN <<>>
    ELSE IF Len(pieces) = 1 THEN pieces[1]
    ELSE pieces[1] \o <<ch>> \o Join(Tail(pieces), ch)

Failure == [failure |-> TRUE]      \* new URL throws a TypeError

\* Scheme start state and scheme state: the index of the ':' that ends the
\* scheme, or 0 when the input has no scheme (failure, there being no base).
SchemeEnd(input) ==
    LET i == FirstIndex(input, {c \in {input[k] : k \in 1..Len(input)} :
                                    c \notin Alpha \cup Digits \cup {"+", "-", "."}})
    IN  IF /\ input # <<>>
           /\ input[1] \in Alpha
           /\ i <= Len(input)
           /\ input[i] = ":"
        THEN i ELSE 0

SpecialSchemes == {Str_http, Str_https}

\* Path state: the raw segments folded into the URL's path; "." segments are
\* dropped, ".." segments remove the segment before them, and either of them
\* in last place leaves an empty last segment.
RECURSIVE FoldSegments(_, _, _)
FoldSegments(raw, i, acc) ==
    IF i > Len(raw) THEN acc
    ELSE LET seg    == raw[i]
             isLast == i = Len(raw)
             popped == IF acc = <<>> THEN acc ELSE SubSeq(acc, 1, Len(acc) - 1)
         IN  CASE seg = <<".", ".">> ->
                    FoldSegments(raw, i + 1,
                                 IF isLast THEN Append(popped, <<>>) ELSE popped)
               [] seg = <<".">> ->
                    FoldSegments(raw, i + 1,
                                 IF isLast THEN Append(acc, <<>>) ELSE acc)
               [] OTHER ->
                    FoldSegments(raw, i + 1, Append(acc, seg))

\* Path start state and path state of a URL with a host: the path string
\* (up to the query or fragment) into the serialized pathname.
SpecialPathname(pathStr) ==
    LET body == IF pathStr # <<>> /\ pathStr[1] = "/" THEN Tail(pathStr) ELSE pathStr
    IN  <<"/">> \o Join(FoldSegments(Split(body, "/"), 1, <<>>), "/")

\* Characters the host parser rejects (forbidden host code points), those of
\* the alphabet.
ForbiddenHostChars == {":", "/", "?", "#", "%"}

\* Query state and fragment state: what follows the path.
TailParts(rest) ==
    LET q == FirstIndex(rest, {"?", "#"})
        hasQuery == q <= Len(rest) /\ rest[q] = "?"
        afterQ   == IF hasQuery THEN From(rest, q + 1) ELSE <<>>
        f == IF hasQuery THEN FirstIndex(afterQ, {"#"}) ELSE 0
        query == IF hasQuery THEN SubSeq(afterQ, 1, f - 1) ELSE <<>>
        hasFragment == IF hasQuery THEN f <= Len(afterQ) ELSE q <= Len(rest)
        fragment == IF ~hasFragment THEN <<>>
                    ELSE IF hasQuery THEN From(afterQ, f + 1) ELSE From(rest, q + 1)
    IN  [pathStr |-> SubSeq(rest, 1, q - 1),
         hasQuery |-> hasQuery, query |-> query,
         hasFragment |-> hasFragment, fragment |-> fragment]

\* The states after the scheme of a special (http, https) URL: every leading
\* slash is skipped, the authority runs to the first '/', '?' or '#', the
\* host must not be empty, a port must be digits.
ParseSpecial(scheme, afterScheme) ==
    LET start == FirstIndex(afterScheme,
                            {c \in {afterScheme[k] : k \in 1..Len(afterScheme)} : c # "/"})
        body == From(afterScheme, start)
        a == FirstIndex(body, {"/", "?", "#"})
        authority == SubSeq(body, 1, a - 1)
        c == FirstIndex(authority, {":"})
        host == SubSeq(authority, 1, c - 1)
        port == From(authority, c + 1)
        parts == TailParts(From(body, a))
    IN  IF \/ host = <<>>
           \/ \E i \in 1..Len(host) : host[i] \in ForbiddenHostChars
           \/ \E i \in 1..Len(port) : port[i] \notin Digits
        THEN Failure
        ELSE [failure |-> FALSE, scheme |-> scheme, host |-> host, port |-> port,
              pathname |-> SpecialPathname(parts.pathStr),
              hasQuery |-> parts.hasQuery, query |-> parts.query,
              hasFragment |-> parts.hasFragment, fragment |-> parts.fragment]

\* new URL(input): the URL record, or Failure. Inputs with a scheme other
\* than http and https are outside the inputs enumerated here; they parse
\* (no failure) with an opaque path.
ParseURL(input) ==
    LET e == SchemeEnd(input)
    IN  IF e = 0 THEN Failure
        ELSE IF SubSeq(input, 1, e - 1) \in SpecialSchemes
        THEN ParseSpecial(SubSeq(input, 1, e - 1), From(input, e + 1))
        ELSE LET parts == TailParts(From(input, e + 1))
             IN  [failure |-> FALSE, scheme |-> SubSeq(input, 1, e - 1),
                  host |-> <<>>, port |-> <<>>, pathname |-> parts.pathStr,
                  hasQuery |-> parts.hasQuery, query |-> parts.query,
                  hasFragment |-> parts.hasFragment, fragment |-> parts.fragment]

\* The getters of URL the code reads.
Protocol(u) == u.scheme \o <<":">>
Pathname(u) == u.pathname
Search(u) == IF u.hasQuery /\ u.query # <<>> THEN <<"?">> \o u.query ELSE <<>>
Hash(u) == IF u.hasFragment /\ u.fragment # <<>> THEN <<"#">> \o u.fragment ELSE <<>>

\* URL.prototype.toString: the URL serializer.
Href(u) ==
    u.scheme \o <<":", "/", "/">> \o u.host
        \o (IF u.port = <<>> THEN <<>> ELSE <<":">> \o u.port)
        \o u.pathname
        \o (IF u.hasQuery THEN <<"?">> \o u.query ELSE <<>>)
        \o (IF u.hasFragment THEN <<"#">> \o u.fragment ELSE <<>>)

\* application/x-www-form-urlencoded byte serializer: letters, digits and
\* '*', '-', '.', '_' are kept, every other character of the alphabet
\* becomes its percent-encoded byte.
FormEncodeChar(ch) ==
    CASE ch = ":" -> <<"%", "3", "A">>
      [] ch = "/" -> <<"%", "2", "F">>
      [] ch = "?" -> <<"%", "3", "F">>
      [] ch = "#" -> <<"%", "2", "3">>
      [] ch = "=" -> <<"%", "3", "D">>
      [] ch = "&" -> <<"%", "2", "6">>
      [] ch = "%" -> <<"%", "2", "5">>
      [] OTHER -> <<ch>>

RECURSIVE FormEncode(_)
FormEncode(s) ==
    IF s = <<>> THEN <<>> ELSE FormEncodeChar(Head(s)) \o FormEncode(Tail(s))

EncodedChars == {":", "/", "?", "#", "=", "&", "%"}

\* Percent-decoding, as the application/x-www-form-urlencoded parser does
\* it, for the bytes of the alphabet.
RECURSIVE FormDecode(_)
FormDecode(s) ==
    IF s = <<>> THEN <<>>
    ELSE IF /\ Head(s) = "%"
            /\ Len(s) >= 3
            /\ \E ch \in EncodedChars : FormEncodeChar(ch) = SubSeq(s, 1, 3)
         THEN <<CHOOSE ch \in EncodedChars : FormEncodeChar(ch) = SubSeq(s, 1, 3)>>
                  \o FormDecode(From(s, 4))
         ELSE <<Head(s)>> \o FormDecode(Tail(s))

\* The URLSearchParams list of a query: the pieces between '&', empty pieces
\* dropped, each split at its first '=' into a decoded name and value.
RECURSIVE ParamsOfPieces(_)
ParamsOfPieces(pieces) ==
    IF pieces = <<>> THEN <<>>
    ELSE LET piece == Head(pieces)
             eq == FirstIndex(piece, {"="})
         IN  (IF piece = <<>> THEN <<>>
              ELSE << [name  |-> FormDecode(SubSeq(piece, 1, eq - 1)),
                       value |-> FormDecode(From(piece, eq + 1))] >>)
                 \o ParamsOfPieces(Tail(pieces))

SearchParams(u) == IF u.hasQuery THEN ParamsOfPieces(Split(u.query, "&")) ELSE <<>>

\* URLSearchParams.prototype.set: the first pair named name takes the value
\* and the other pairs of that name are removed; with no such pair, the pair
\* is appended.
ParamsSet(params, name, value) ==
    IF \E i \in 1..Len(params) : params[i].name = name
    THEN LET first == CHOOSE i \in 1..Len(params) :
                          /\ params[i].name = name
                          /\ \A j \in 1..(i - 1) : params[j].name # name
             keep == {i \in 1..Len(params) : i = first \/ params[i].name # name}
             Nth(k) == CHOOSE i \in keep : Cardinality({j \in keep : j <= i}) = k
         IN  [k \in 1..Cardinality(keep) |->
                 IF Nth(k) = first THEN [name |-> name, value |-> value]
                 ELSE params[Nth(k)]]
    ELSE Append(params, [name |-> name, value |-> value])

\* The application/x-www-form-urlencoded serializer.
RECURSIVE SerializeParams(_)
SerializeParams(params) ==
    IF params = <<>> THEN <<>>
    ELSE FormEncode(params[1].name) \o <<"=">> \o FormEncode(params[1].value)
            \o (IF Len(params) = 1 THEN <<>>
                ELSE <<"&">> \o SerializeParams(Tail(params)))

\* url.searchParams.set(name, value): the list is updated and the URL's
\* query becomes the serialized list.
SearchParamsSet(u, name, value) ==
    [u EXCEPT !.hasQuery = TRUE,
              !.query = SerializeParams(ParamsSet(SearchParams(u), name, value))]

----------------------------------------------------------------------------
(* BackgroundService.buildRedirectUrl *)

Str_httpSlashes  == <<"h", "t", "t", "p", ":", "/", "/">>
Str_httpsSlashes == <<"h", "t", "t", "p", "s", ":", "/", "/">>

Value(str) == [threw |-> FALSE, value |-> str]      \* a returned string
Threw == [threw |-> TRUE, value |-> <<>>]           \* an exception

\* A plausible slip: the contains-'/' test made before the full-URL test.
PrefixKindPathFirst(prefix) ==
    IF Includes(prefix, "/") THEN "path"
    ELSE IF StartsWith(prefix, Str_httpSlashes) \/ StartsWith(prefix, Str_httpsSlashes)
    THEN "fullUrl"
    ELSE "domain"

\* The if/else chain on rule.prefix.
PrefixKind(prefix) ==
    IF StartsWith(prefix, Str_httpSlashes) \/ StartsWith(prefix, Str_httpsSlashes)
    THEN "fullUrl"
    ELSE IF Includes(prefix, "/") THEN "path"
    ELSE "domain"

\* A plausible slip: the fragment left out of the template string.
DomainRedirectNoHash(url, prefix) ==
    Protocol(url) \o <<"/", "/">> \o prefix \o Pathname(url) \o Search(url)

\* `${url.protocol}//${rule.prefix}${url.pathname}${url.search}${url.hash}`
DomainRedirect(url, prefix) ==
    Protocol(url) \o <<"/", "/">> \o prefix \o Pathname(url) \o Search(url) \o Hash(url)

\* A plausible slip: the original URL parsed only where it is used, in the
\* bare-domain branch.
OriginalParseFailsLate(originalUrl, prefix) ==
    PrefixKind(prefix) = "domain" /\ ParseURL(originalUrl).failure

\* `const url = new URL(originalUrl);` is the first statement of the try
\* block, before the prefix is looked at.
OriginalParseFails(originalUrl, prefix) == ParseURL(originalUrl).failure

\* The body of the try block: the returned string, or Threw.
TryBuild(originalUrl, prefix) ==
    IF OriginalParseFails(originalUrl, prefix) THEN Threw
    ELSE LET url == ParseURL(originalUrl)
             kind == PrefixKind(prefix)
         IN  CASE kind = "fullUrl" ->
                    LET prefixUrl == ParseURL(prefix)
                    IN  IF prefixUrl.failure THEN Threw
                        ELSE Value(Href(SearchParamsSet(prefixUrl, Str_url, originalUrl)))
               [] kind = "path"   -> Value(prefix \o originalUrl)
               [] kind = "domain" -> Value(DomainRedirect(url, prefix))

\* A plausible slip: no catch block.
OnBuildErrorRethrow(outcome, originalUrl) == outcome

\* The catch block: the error is logged and originalUrl returned.
OnBuildError(outcome, originalUrl) ==
    IF outcome.threw THEN Value(originalUrl) ELSE outcome

buildRedirectUrl(originalUrl, rule) ==
    OnBuildError(TryBuild(originalUrl, rule.prefix), originalUrl)

----------------------------------------------------------------------------
(* Inputs of the builder's specification *)

BuildSchemes == { <<"h", "t", "t", "p", ":">>, <<"h", "t", "t", "p", "s", ":">> }

BuildHosts == { <<"a">>, <<"b", ".", "a">> }

\* "", "/", "/p", "/p/q", "/p/."
BuildPaths == { <<>>, <<"/">>, <<"/", "p">>, <<"/", "p", "/", "q">>, <<"/", "p", "/", ".">> }

\* "", "?", "?x=a"
BuildQueries == { <<>>, <<"?">>, <<"?", "x", "=", "a">> }

\* "", "#f"
BuildFragments == { <<>>, <<"#", "f">> }

WellFormedUrls ==
    { sc \o <<"/", "/">> \o h \o pa \o q \o f :
        sc \in BuildSchemes, h \in BuildHosts, pa \in BuildPaths,
        q \in BuildQueries, f \in BuildFragments }

\* Strings new URL rejects: "", "a", "/p", "a/p", "http://", "https:///?x",
\* "//a/p".
MalformedUrls ==
    { <<>>,
      <<"a">>,
      <<"/", "p">>,
      <<"a", "/", "p">>,
      <<"h", "t", "t", "p", ":", "/", "/">>,
      <<"h", "t", "t", "p", "s", ":", "/", "/", "/", "?", "x">>,
      <<"/", "/", "a", "/", "p">> }

BuildUrls == WellFormedUrls \cup MalformedUrls

\* Bare domains: "b", "b.a", "a".
DomainPrefixes ==
    { <<"b">>,
      <<"b", ".", "a">>,
      <<"a">> }

\* Path-bearing prefixes: "b/", "b/?url=", "/".
PathPrefixes ==
    { <<"b", "/">>,
      <<"b", "/", "?", "u", "r", "l", "=">>,
      <<"/">> }

\* Prefixes that start with http:// or https://: "http://b/", "https://b",
\* "https://b/p?k=a&url=x", "https://b/?url=a&k=a&url=b#f", and two that
\* new URL rejects, "https://" and "http://?".
FullUrlPrefixes ==
    { <<"h", "t", "t", "p", ":", "/", "/", "b", "/">>,
      <<"h", "t", "t", "p", "s", ":", "/", "/", "b">>,
      <<"h", "t", "t", "p", "s", ":", "/", "/", "b", "/", "p", "?", "k", "=", "a", "&", "u", "r", "l", "=", "x">>,
      <<"h", "t", "t", "p", "s", ":", "/", "/", "b", "/", "?", "u", "r", "l", "=", "a", "&", "k", "=", "a", "&", "u", "r", "l", "=", "b", "#", "f">>,
      <<"h", "t", "t", "p", "s", ":", "/", "/">>,
      <<"h", "t", "t", "p", ":", "/", "/", "?">> }

BuildPrefixes == DomainPrefixes \cup PathPrefixes \cup FullUrlPrefixes

InitBuild ==
    /\ call \in [op : {"buildRedirectUrl"}, url : BuildUrls, prefix : BuildPrefixes]
    /\ ret = NotReturned
    /\ ServiceConstructed
    /\ EmptyStores

CallBuildRedirectUrl ==
    /\ call.op = "buildRedirectUrl"
    /\ ret = NotReturned
    /\ ret' = buildRedirectUrl(call.url, MkRule(1, <<>>, call.prefix,
                                               [isEnabled |-> TRUE, isRegex |-> FALSE]))
    /\ UNCHANGED <<call, serviceVars>>

NextBuild == CallBuildRedirectUrl

SpecBuild == InitBuild /\ [][NextBuild]_vars

----------------------------------------------------------------------------
(* Claims about findMatchingRule, checked under SpecMatch *)

Returned == ret # NotReturned

\* Upper-casing written out, independently of the matcher's Canonicalize.
UpperChar(ch) == IF ch = "a" THEN "A" ELSE IF ch = "b" THEN "B" ELSE ch

UpperCased(s) == [i \in 1..Len(s) |-> UpperChar(s[i])]

\* The rule's pattern matches the URL when case is ignored: the upper-cased
\* pattern matches the upper-cased URL.
MatchesIgnoringCase(rule, url) ==
    TryMatch([rule EXCEPT !.pattern = UpperCased(rule.pattern)],
             UpperCased(url)) = "match"

\* The rule's pattern does not compile.
PatternInvalid(rule) ==
    RegExpCompile(IF rule.isRegex THEN rule.pattern
                  ELSE WildcardSource(rule.pattern)).error

EligibleIndexes(url, rules) ==
    {i \in 1..Len(rules) : rules[i].isEnabled /\ MatchesIgnoringCase(rules[i], url)}

\* C1: findMatchingRule returns the earliest-indexed rule that is enabled and
\* whose pattern matches the URL case-insensitively, and null when the list
\* is empty or no enabled rule matches; a disabled rule is never returned.
C1_FirstEnabledMatch ==
    Returned =>
        LET idx == EligibleIndexes(call.url, call.rules)
        IN  /\ idx = {} => ret = NoRule
            /\ idx # {} => ret = call.rules[CHOOSE i \in idx : \A j \in idx : i <= j]
            /\ \A i \in 1..Len(call.rules) :
                   ~call.rules[i].isEnabled => ret # call.rules[i]

\* C1 witness: a disabled first rule whose pattern matches is passed over and
\* the second rule is returned on a match that differs from the URL in case.
C1_Witness ==
    /\ Returned
    /\ Len(call.rules) = 2
    /\ ~call.rules[1].isEnabled
    /\ MatchesIgnoringCase(call.rules[1], call.url)
    /\ ret = call.rules[2]
    /\ call.rules[2].pattern = <<"A", "B">>
    /\ call.url = <<"a", "a", "b">>

\* The rule list without the enabled rules whose pattern does not compile.
WithoutInvalid(rules) ==
    SelectSeq(rules, LAMBDA r : ~(r.isEnabled /\ PatternInvalid(r)))

\* C5: a rule whose pattern fails to compile is treated as non-matching and
\* the scan continues: the result is the one the scan gives with the invalid
\* rules removed from the list, and the scan never throws.
C5_InvalidPatternSkipped ==
    Returned =>
        /\ ret # Thrown
        /\ ret = findMatchingRule(call.url, WithoutInvalid(call.rules))

\* C5 witness: an enabled rule with an invalid pattern stands before the
\* rule that is returned.
C5_Witness ==
    /\ Returned
    /\ Len(call.rules) = 2
    /\ call.rules[1].isEnabled
    /\ PatternInvalid(call.rules[1])
    /\ ret = call.rules[2]

----------------------------------------------------------------------------
(* Claims about buildRedirectUrl, checked under SpecBuild *)

IsFullUrlPrefix(prefix) ==
    StartsWith(prefix, Str_httpSlashes) \/ StartsWith(prefix, Str_httpsSlashes)

IsPathPrefix(prefix) == Includes(prefix, "/") /\ ~IsFullUrlPrefix(prefix)

IsDomainPrefix(prefix) == ~Includes(prefix, "/") /\ ~IsFullUrlPrefix(prefix)

Parses(str) == ~ParseURL(str).failure

\* C6 as stated: for a path-bearing prefix the result is prefix + originalUrl
\* for every originalUrl, whether or not it parses as a URL.
C6_ConcatForEveryUrl ==
    (Returned /\ IsPathPrefix(call.prefix)) =>
        ret = Value(call.prefix \o call.url)

\* C6 amended: for a path-bearing prefix the result is prefix + originalUrl
\* when originalUrl parses as a URL, and originalUrl itself when it does not
\* (the fail-soft return happens in every branch).
C6_ConcatForParsableUrl ==
    (Returned /\ IsPathPrefix(call.prefix)) =>
        ret = IF Parses(call.url) THEN Value(call.prefix \o call.url)
              ELSE Value(call.url)

\* C6 witness: a path-bearing prefix has been put before a URL that parses.
C6_Witness ==
    /\ Returned
    /\ IsPathPrefix(call.prefix)
    /\ Parses(call.url)
    /\ ret = Value(call.prefix \o call.url)
    /\ ret.value # call.url

\* The pairs of a parameter list whose name is not `url`.
OtherParams(params) == SelectSeq(params, LAMBDA pr : pr.name # Str_url)

\* The result string is the prefix URL with its `url` parameter set to the
\* original URL: it parses; scheme, host, port, path and fragment are the
\* prefix's; it has exactly one parameter `url`, whose value is the original
\* URL; its other parameters are the prefix's, in order.
IsPrefixWithUrlParam(result, prefix, originalUrl) ==
    /\ Parses(result)
    /\ LET R == ParseURL(result)
           P == ParseURL(prefix)
           urls == SelectSeq(SearchParams(R), LAMBDA pr : pr.name = Str_url)
       IN  /\ R.scheme = P.scheme
           /\ R.host = P.host
           /\ R.port = P.port
           /\ R.pathname = P.pathname
           /\ Hash(R) = Hash(P)
           /\ urls = << [name |-> Str_url, value |-> originalUrl] >>
           /\ OtherParams(SearchParams(R)) = OtherParams(SearchParams(P))

\* C7 as stated: whenever the prefix starts with http:// or https://, the
\* result is the prefix URL with its query parameter `url` set to the full
\* original URL.
C7_FullUrlPrefixAlways ==
    (Returned /\ IsFullUrlPrefix(call.prefix) /\ Parses(call.prefix)) =>
        /\ ~ret.threw
        /\ IsPrefixWithUrlParam(ret.value, call.prefix, call.url)

\* C7 amended: when the prefix starts with http:// or https:// and both the
\* prefix and the original URL parse as URLs, the result is the prefix URL
\* with its query parameter `url` set to the full original URL (an existing
\* `url` parameter overwritten, the other parameters, scheme, host and path
\* kept); this holds although every such prefix contains a '/'.
C7_FullUrlPrefixParsable ==
    (Returned /\ IsFullUrlPrefix(call.prefix) /\ Parses(call.prefix)
              /\ Parses(call.url)) =>
        /\ Includes(call.prefix, "/")
        /\ ~ret.threw
        /\ IsPrefixWithUrlParam(ret.value, call.prefix, call.url)

\* C7 witness: a prefix that already has a `url` parameter and another
\* parameter has been applied to a URL with a query.
C7_Witness ==
    /\ Returned
    /\ IsFullUrlPrefix(call.prefix)
    /\ Parses(call.url)
    /\ Parses(call.prefix)
    /\ Len(SearchParams(ParseURL(call.prefix))) = 3
    /\ ParseURL(call.url).query # <<>>
    /\ ret.value # call.url

\* C8: for a bare-domain prefix and a parsable original URL the result is
\* protocol + "//" + prefix + pathname + search + hash of the original URL;
\* read back as a URL, its host is the prefix and its protocol, path, query
\* and fragment are the original's.
C8_DomainPrefix ==
    (Returned /\ IsDomainPrefix(call.prefix) /\ Parses(call.url)) =>
        LET u == ParseURL(call.url)
        IN  /\ ret = Value(Protocol(u) \o <<"/", "/">> \o call.prefix
                             \o Pathname(u) \o Search(u) \o Hash(u))
            /\ Parses(ret.value)
            /\ LET R == ParseURL(ret.value)
               IN  /\ R.host = call.prefix
                   /\ Protocol(R) = Protocol(u)
                   /\ Pathname(R) = Pathname(u)
                   /\ Search(R) = Search(u)
                   /\ Hash(R) = Hash(u)

\* C8 witness: a URL with a path, a query and a fragment has had its host
\* replaced by another one.
C8_Witness ==
    /\ Returned
    /\ IsDomainPrefix(call.prefix)
    /\ Parses(call.url)
    /\ LET u == ParseURL(call.url)
       IN  /\ u.host # call.prefix
           /\ Len(Pathname(u)) > 1
           /\ Search(u) # <<>>
           /\ Hash(u) # <<>>
    /\ ret.value # call.url

\* C9: buildRedirectUrl never throws; when parsing the original URL, or a
\* full-URL prefix, fails, it returns originalUrl unchanged.
C9_NeverThrows ==
    Returned =>
        /\ ~ret.threw
        /\ (~Parses(call.url) \/ (IsFullUrlPrefix(call.prefix) /\ ~Parses(call.prefix)))
              => ret = Value(call.url)

\* C9 witness: a full-URL prefix that does not parse has been applied to a
\* URL that does.
C9_Witness ==
    /\ Returned
    /\ Parses(call.url)
    /\ IsFullUrlPrefix(call.prefix)
    /\ ~Parses(call.prefix)
    /\ ret = Value(call.url)

----------------------------------------------------------------------------
(* StorageManager *)

MAX_LOGS == 1000

\* StorageManager.getDefaultSettings
getDefaultSettings ==
    [isEnabled |-> TRUE, rules |-> <<>>, showNotifications |-> TRUE,
     logRedirects |-> TRUE]

\* `result[this.STORAGE_KEY] || { settings: this.getDefaultSettings(), logs: [] }`
DataOrDefault(stored) ==
    IF stored.present THEN stored
    ELSE [present |-> TRUE, settings |-> getDefaultSettings, logs |-> <<>>]

\* StorageManager.getSettings once chrome.storage.sync.get has settled:
\* `data?.settings || getDefaultSettings()`, and the defaults again in the
\* catch block when the read failed.
getSettings(ok) ==
    IF ok /\ syncData.present THEN syncData.settings ELSE getDefaultSettings

\* StorageManager.getLogs once chrome.storage.local.get has settled:
\* `data?.logs || []`, and [] in the catch block when the read failed.
getLogs(ok) ==
    IF ok /\ localData.present THEN localData.logs ELSE <<>>

\* A plausible slip: the cap left out.
KeepLatestAll(logs) == logs

\* `if (logs.length > MAX_LOGS) logs.splice(MAX_LOGS)`
KeepLatest(logs) ==
    IF Len(logs) > MAX_LOGS THEN SubSeq(logs, 1, MAX_LOGS) ELSE logs

\* addLog between its two reads: `logs.unshift(log)` and the cap.
UnshiftLog(logs, log) == KeepLatest(<<log>> \o logs)

----------------------------------------------------------------------------
(* BackgroundService.handleNavigation *)

\* The locals of one invocation. pc names the promise the invocation is
\* waiting for, "done" once it has returned.
NewNavigation(tab, url, origin) ==
    [pc |-> "getSettings", tab |-> tab, url |-> url, origin |-> origin,
     matching |-> FALSE, rule |-> NoRule, redirectUrl |-> <<>>,
     logRedirects |-> FALSE, showNotifications |-> FALSE,
     updateOk |-> FALSE, logs |-> <<>>, data |-> NoData]

\* The listener's filter `{ url: [{ schemes: ["http", "https"] }] }`.
PassesFilter(url) ==
    /\ ~ParseURL(url).failure
    /\ ParseURL(url).scheme \in {Str_http, Str_https}

\* A plausible slip: the tab left in the set when its event is swallowed.
ConsumePendingNot(tabs, tab) == tabs

\* `this.redirectedTabs.delete(details.tabId)` of the loop guard.
ConsumePending(tabs, tab) == tabs \ {tab}

\* A plausible slip: the frame test left out.
IgnoresFrameNever(frameId) == FALSE

\* `if (details.frameId !== 0) return;`
IgnoresFrame(frameId) == frameId # 0

\* handleNavigation up to its first await.
\*   frameId !== 0         : return
\*   tab in redirectedTabs : delete it and return
\*   otherwise             : call StorageManager.getSettings and wait
OnBeforeNavigate(tab, frameId, url, origin) ==
    /\ ownNavPending' = IF frameId = 0 THEN ownNavPending \ {tab} ELSE ownNavPending
    /\ IF IgnoresFrame(frameId)
       THEN UNCHANGED <<redirectedTabs, nav>>
       ELSE IF tab \in redirectedTabs
       THEN /\ redirectedTabs' = ConsumePending(redirectedTabs, tab)
            /\ UNCHANGED nav
       ELSE /\ nav' = Append(nav, NewNavigation(tab, url, origin))
            /\ UNCHANGED redirectedTabs

\* A plausible slip: the comparison with details.url left out.
IsRedirectAlways(redirectUrl, url) == redirectUrl # <<>>

\* `if (redirectUrl && redirectUrl !== details.url)`
IsRedirect(redirectUrl, url) == redirectUrl # <<>> /\ redirectUrl # url

\* The log entry handleNavigation builds; the id stands for generateId(),
\* unique per invocation; the timestamp is left out.
LogEntry(h, n) ==
    [id |-> h, originalUrl |-> n.url, redirectedUrl |-> n.redirectUrl,
     ruleId |-> n.rule.id, ruleName |-> n.rule.name, tabId |-> n.tab]

\* A plausible slip: the notification shown whatever the setting.
ShowsNotificationAlways(n) == TRUE

\* `if (settings.showNotifications)`
ShowsNotification(n) == n.showNotifications

\* After addLog (or without it): the notification, and the return.
NotifyAndReturn(h, n) ==
    /\ notifications' =
           IF ShowsNotification(n)
           THEN notifications \cup {[id |-> h, ruleName |-> n.rule.name,
                                     originalUrl |-> n.url,
                                     redirectUrl |-> n.redirectUrl]}
           ELSE notifications
    /\ nav' = [nav EXCEPT ![h] = [n EXCEPT !.pc = "done"]]

\* A plausible slip: the master switch not consulted.
SwitchedOffNever(settings) == FALSE

\* `if (!settings.isEnabled) return;`
SwitchedOff(settings) == ~settings.isEnabled

\* `await StorageManager.getSettings()` settles (ok: the storage read
\* succeeded); the handler runs on to `chrome.tabs.update(...)`, or returns.
\* The browser decides at the call whether the update will succeed
\* (updateOk); a tab that was closed cannot be updated. A successful update
\* to an http(s) URL starts a navigation that the browser announces later.
SettingsRead(h, ok, updateOk) ==
    /\ h \in 1..Len(nav)
    /\ nav[h].pc = "getSettings"
    /\ LET n == nav[h]
           settings == getSettings(ok)
           rule == IF SwitchedOff(settings) THEN NoRule
                   ELSE findMatchingRule(n.url, settings.rules)
           redirectUrl == IF rule = NoRule THEN <<>>
                          ELSE buildRedirectUrl(n.url, rule).value
           m == [n EXCEPT !.matching = ~SwitchedOff(settings),
                          !.rule = rule,
                          !.redirectUrl = redirectUrl,
                          !.logRedirects = settings.logRedirects,
                          !.showNotifications = settings.showNotifications]
       IN  IF rule # NoRule /\ IsRedirect(redirectUrl, n.url)
           THEN /\ updateOk => n.tab \notin closedTabs
                /\ redirectedTabs' = redirectedTabs \cup {n.tab}
                /\ ownNavPending' = ownNavPending \cup {n.tab}
                /\ navCalls' = navCalls \cup {[id |-> h, tab |-> n.tab, url |-> redirectUrl]}
                /\ browserNav' =
                       IF updateOk /\ PassesFilter(redirectUrl)
                       THEN [browserNav EXCEPT ![n.tab] = Append(@, redirectUrl)]
                       ELSE browserNav
                /\ nav' = [nav EXCEPT ![h] = [m EXCEPT !.pc = "tabsUpdate",
                                                      !.updateOk = updateOk]]
           ELSE /\ updateOk
                /\ nav' = [nav EXCEPT ![h] = [m EXCEPT !.pc = "done"]]
                /\ UNCHANGED <<redirectedTabs, navCalls, browserNav, ownNavPending>>
    /\ UNCHANGED <<pureVars, syncData, localData, msgs, closedTabs, notifications, events>>

\* A plausible slip: the entry logged whatever the setting.
LogsRedirectAlways(n) == TRUE

\* `if (settings.logRedirects)`
LogsRedirect(n) == n.logRedirects

\* `await chrome.tabs.update(...)` settles. Rejected: the catch block logs
\* the error and the handler returns. Fulfilled: addLog is called when
\* settings.logRedirects, which starts with getLogs.
TabUpdated(h) ==
    /\ h \in 1..Len(nav)
    /\ nav[h].pc = "tabsUpdate"
    /\ LET n == nav[h]
       IN  IF ~n.updateOk
           THEN /\ nav' = [nav EXCEPT ![h] = [n EXCEPT !.pc = "done"]]
                /\ UNCHANGED notifications
           ELSE IF LogsRedirect(n)
           THEN /\ nav' = [nav EXCEPT ![h] = [n EXCEPT !.pc = "getLogs"]]
                /\ UNCHANGED notifications
           ELSE NotifyAndReturn(h, n)
    /\ UNCHANGED <<pureVars, redirectedTabs, syncData, localData, msgs, browserNav,
                   closedTabs, navCalls, events, ownNavPending>>

\* addLog: `await this.getLogs()` settles; the entry is put first, the list
\* is cut to MAX_LOGS, and chrome.storage.sync.get is called.
LogsRead(h, ok) ==
    /\ h \in 1..Len(nav)
    /\ nav[h].pc = "getLogs"
    /\ nav' = [nav EXCEPT ![h] =
                  [@ EXCEPT !.pc = "syncGet",
                            !.logs = UnshiftLog(getLogs(ok), LogEntry(h, nav[h]))]]
    /\ UNCHANGED <<pureVars, redirectedTabs, syncData, localData, msgs, browserNav,
                   closedTabs, navCalls, notifications, events, ownNavPending>>

\* addLog: `await chrome.storage.sync.get(...)` settles. Rejected: addLog's
\* catch block logs the error and addLog returns. Fulfilled: data.logs = logs
\* and chrome.storage.local.set is called.
LogSyncRead(h, ok) ==
    /\ h \in 1..Len(nav)
    /\ nav[h].pc = "syncGet"
    /\ LET n == nav[h]
       IN  IF ok
           THEN /\ nav' = [nav EXCEPT ![h] =
                              [n EXCEPT !.pc = "localSet",
                                        !.logs = <<>>,
                                        !.data = [DataOrDefault(syncData)
                                                    EXCEPT !.logs = n.logs]]]
                /\ UNCHANGED notifications
           ELSE NotifyAndReturn(h, [n EXCEPT !.logs = <<>>])
    /\ UNCHANGED <<pureVars, redirectedTabs, syncData, localData, msgs, browserNav,
                   closedTabs, navCalls, events, ownNavPending>>

\* addLog: `await chrome.storage.local.set(...)` settles (a failed write
\* stores nothing and is swallowed by addLog's catch block); back in
\* handleNavigation the notification is shown.
LogWritten(h, ok) ==
    /\ h \in 1..Len(nav)
    /\ nav[h].pc = "localSet"
    /\ localData' = IF ok THEN nav[h].data ELSE localData
    /\ NotifyAndReturn(h, [nav[h] EXCEPT !.data = NoData])
    /\ UNCHANGED <<pureVars, redirectedTabs, syncData, msgs, browserNav,
                   closedTabs, navCalls, events, ownNavPending>>

----------------------------------------------------------------------------
(* The browser *)

MaxEvents == 2

NavUrls == { <<"h", "t", "t", "p", ":", "/", "/", "a", "/">>, <<"h", "t", "t", "p", ":", "/", "/", "b", "/", "p">> }

\* The user (or a page) navigates a frame of an open tab to an http(s) URL:
\* webNavigation.onBeforeNavigate.
UserNavigates(tab, frameId, url) ==
    /\ events < MaxEvents
    /\ tab \notin closedTabs
    /\ events' = events + 1
    /\ OnBeforeNavigate(tab, frameId, url, "user")
    /\ UNCHANGED <<pureVars, syncData, localData, msgs, browserNav, closedTabs,
                   navCalls, notifications>>

\* The browser announces the navigation a chrome.tabs.update call started:
\* webNavigation.onBeforeNavigate for the main frame.
UpdateNavigates(tab) ==
    /\ browserNav[tab] # <<>>
    /\ browserNav' = [browserNav EXCEPT ![tab] = Tail(@)]
    /\ OnBeforeNavigate(tab, 0, Head(browserNav[tab]), "update")
    /\ UNCHANGED <<pureVars, syncData, localData, msgs, closedTabs, navCalls,
                   notifications, events>>

\* The tab is closed: the chrome.tabs.onRemoved listener. The navigations
\* the browser had started on it are gone with it.
TabRemoved(tab) ==
    /\ tab \notin closedTabs
    /\ closedTabs' = closedTabs \cup {tab}
    /\ browserNav' = [browserNav EXCEPT ![tab] = <<>>]
    /\ redirectedTabs' = redirectedTabs \ {tab}
    /\ ownNavPending' = ownNavPending \ {tab}
    /\ UNCHANGED <<pureVars, syncData, localData, nav, msgs, navCalls,
                   notifications, events>>

----------------------------------------------------------------------------
(* BackgroundService.handleMessage, StorageManager.clearLogs *)

MaxMessages == 1

MessageTypes == {"CLEAR_LOGS"}

\* `message.data` of a message that carries none.
NoArg == [kind |-> "none"]

\* A response without a data field.
NoValue == [kind |-> "none"]

\* `error.message` of a rejected chrome.storage call.
StorageError == "Storage failure"

NoResponse == [sent |-> FALSE, success |-> FALSE, data |-> NoValue, error |-> ""]

\* A MessageResponse: { success, data?, error? }.
Responded(success, data, error) ==
    [sent |-> TRUE, success |-> success, data |-> data, error |-> error]

\* The response of an operation without a result: { success: true }, or
\* { success: false, error } from handleMessage's catch block after a
\* storage call was rejected.
Response(success) ==
    Responded(success, NoValue, IF success THEN "" ELSE StorageError)

\* The locals of one handleMessage invocation: the message, the promise the
\* invocation is waiting for, `settings` and `data` of the StorageManager
\* call in progress, and what sendResponse was called with, and how often.
\* failed records that a chrome.storage call of the invocation was rejected.
NewMessage(message, pc) ==
    [type |-> message.type, arg |-> message.data, pc |-> pc,
     settings |-> getDefaultSettings, data |-> NoData,
     response |-> NoResponse, sends |-> 0, failed |-> FALSE]

\* A chrome.storage promise of the invocation settles.
Settled(msg, ok) == [msg EXCEPT !.failed = @ \/ ~ok]

\* `sendResponse(response)`, and the return.
SendResponse(msg, response) ==
    [msg EXCEPT !.pc = "done", !.data = NoData, !.response = response,
                !.sends = @ + 1]

\* `undefined`, and a value that is present.
Undefined == [present |-> FALSE, value |-> <<>>]

Defined(value) == [present |-> TRUE, value |-> value]

\* A plausible slip: the redirect URL built whether the rule matches or not.
TestedRedirectUrlAlways(matches, url, rule) ==
    LET built == buildRedirectUrl(url, rule)
    IN  [threw |-> built.threw, value |-> Defined(built.value)]

\* `matches ? this.buildRedirectUrl(url, rule) : undefined`
TestedRedirectUrl(matches, url, rule) ==
    IF matches
    THEN LET built == buildRedirectUrl(url, rule)
         IN  [threw |-> built.threw, value |-> Defined(built.value)]
    ELSE [threw |-> FALSE, value |-> Undefined]

\* BackgroundService.testRule: { matches, redirectUrl }, and
\* { matches: false } from its catch block.
testRule(url, rule) ==
    LET found == findMatchingRule(url, <<rule>>)
        matches == found # NoRule
        built == TestedRedirectUrl(matches, url, rule)
    IN  IF found = Thrown \/ built.threw
        THEN [kind |-> "test", matches |-> FALSE, redirectUrl |-> Undefined]
        ELSE [kind |-> "test", matches |-> matches, redirectUrl |-> built.value]

\* A plausible slip: the default branch answering like the other branches.
UnknownTypeResponseSuccess == Responded(TRUE, NoValue, "")

\* `default: response = { success: false, error: "Unknown message type" }`
UnknownTypeResponse == Responded(FALSE, NoValue, "Unknown message type")

\* The operations that start with StorageManager.getSettings.
ReadsSettingsFirst == {"GET_SETTINGS", "ADD_RULE", "UPDATE_RULE", "DELETE_RULE"}

\* handleMessage for every type but TEST_RULE, up to its first await, or to
\* its response when the type is unknown. limit bounds the number of
\* messages.
HandleMessage(message, limit) ==
    /\ message.type # "TEST_RULE"
    /\ Len(msgs) < limit
    /\ msgs' = Append(msgs,
           CASE message.type \in ReadsSettingsFirst ->
                    NewMessage(message, "getSettings")
             [] message.type = "UPDATE_SETTINGS" ->
                    [NewMessage(message, "updGet") EXCEPT !.settings = message.data]
             [] message.type = "CLEAR_LOGS" ->
                    NewMessage(message, "syncGet")
             [] OTHER ->
                    SendResponse(NewMessage(message, "start"), UnknownTypeResponse))
    /\ UNCHANGED <<pureVars, redirectedTabs, syncData, localData, nav, browserNav,
                   closedTabs, navCalls, notifications, events, ownNavPending>>

\* handleMessage for TEST_RULE: the response is sent before any await.
HandleTestRule(message, limit) ==
    /\ message.type = "TEST_RULE"
    /\ Len(msgs) < limit
    /\ msgs' = Append(msgs,
           SendResponse(NewMessage(message, "start"),
                        Responded(TRUE, testRule(message.data.url, message.data.rule), "")))
    /\ UNCHANGED <<pureVars, redirectedTabs, syncData, localData, nav, browserNav,
                   closedTabs, navCalls, notifications, events, ownNavPending>>

\* chrome.runtime.onMessage with a message that carries no data.
MessageReceived(type) ==
    HandleMessage([type |-> type, data |-> NoArg], MaxMessages)

\* clearLogs: `await chrome.storage.sync.get(...)` settles. Rejected:
\* clearLogs rethrows and handleMessage answers success false. Fulfilled:
\* data.logs = [] and chrome.storage.local.set is called.
ClearSyncRead(m, ok) ==
    /\ m \in 1..Len(msgs)
    /\ msgs[m].type = "CLEAR_LOGS"
    /\ msgs[m].pc = "syncGet"
    /\ msgs' = [msgs EXCEPT ![m] =
                   IF ok
                   THEN [@ EXCEPT !.pc = "localSet",
                                  !.data = [DataOrDefault(syncData) EXCEPT !.logs = <<>>]]
                   ELSE SendResponse(Settled(@, ok), Response(FALSE))]
    /\ UNCHANGED <<pureVars, redirectedTabs, syncData, localData, nav, browserNav,
                   closedTabs, navCalls, notifications, events, ownNavPending>>

\* clearLogs: `await chrome.storage.local.set(...)` settles, and
\* handleMessage sends its response.
ClearWritten(m, ok) ==
    /\ m \in 1..Len(msgs)
    /\ msgs[m].type = "CLEAR_LOGS"
    /\ msgs[m].pc = "localSet"
    /\ localData' = IF ok THEN msgs[m].data ELSE localData
    /\ msgs' = [msgs EXCEPT ![m] = SendResponse(Settled(@, ok), Response(ok))]
    /\ UNCHANGED <<pureVars, redirectedTabs, syncData, nav, browserNav,
                   closedTabs, navCalls, notifications, events, ownNavPending>>

----------------------------------------------------------------------------
(* StorageManager.updateSettings, addRule, updateRule, deleteRule, and the  *)
(* GET_SETTINGS operation                                                   *)

\* `settings.rules.findIndex(rule => rule.id === ruleId)`
FindIndex(rules, ruleId) ==
    IF \E i \in 1..Len(rules) : rules[i].id = ruleId
    THEN CHOOSE i \in 1..Len(rules) :
             /\ rules[i].id = ruleId
             /\ \A j \in 1..(i - 1) : rules[j].id # ruleId
    ELSE 0 - 1

\* `{ ...settings.rules[ruleIndex], ...updates }`; updatedAt is left out.
Merge(rule, updates) ==
    [f \in DOMAIN rule \cup DOMAIN updates |->
        IF f \in DOMAIN updates THEN updates[f] ELSE rule[f]]

\* `settings.rules.push(rule)`
Push(rules, rule) == Append(rules, rule)

\* `settings.rules.filter(rule => rule.id !== ruleId)`
WithoutRule(rules, ruleId) == SelectSeq(rules, LAMBDA rule : rule.id # ruleId)

\* `await StorageManager.getSettings()` settles in a message handler (a
\* failed read yields the defaults). GET_SETTINGS goes on to getLogs; the
\* rule operations change their copy of the settings and call
\* updateSettings, except that updateRule throws 'Rule not found'.
CommandSettingsRead(m, ok) ==
    /\ m \in 1..Len(msgs)
    /\ msgs[m].pc = "getSettings"
    /\ LET msg == Settled(msgs[m], ok)
           settings == getSettings(ok)
           ruleIndex == FindIndex(settings.rules, msg.arg.id)
       IN  msgs' = [msgs EXCEPT ![m] =
               CASE msg.type = "GET_SETTINGS" ->
                        [msg EXCEPT !.pc = "getLogs", !.settings = settings]
                 [] msg.type = "ADD_RULE" ->
                        [msg EXCEPT !.pc = "updGet",
                                    !.settings = [settings EXCEPT !.rules = Push(@, msg.arg)]]
                 [] msg.type = "UPDATE_RULE" ->
                        IF ruleIndex = 0 - 1
                        THEN SendResponse(msg, Responded(FALSE, NoValue, "Rule not found"))
                        ELSE [msg EXCEPT !.pc = "updGet",
                                         !.settings = [settings EXCEPT !.rules[ruleIndex] =
                                                          Merge(@, msg.arg.updates)]]
                 [] msg.type = "DELETE_RULE" ->
                        [msg EXCEPT !.pc = "updGet",
                                    !.settings = [settings EXCEPT !.rules =
                                                     WithoutRule(@, msg.arg.id)]]]
    /\ UNCHANGED <<pureVars, redirectedTabs, syncData, localData, nav, browserNav,
                   closedTabs, navCalls, notifications, events, ownNavPending>>

\* GET_SETTINGS: `await StorageManager.getLogs()` settles (a failed read
\* yields []), and the response is sent.
CommandLogsRead(m, ok) ==
    /\ m \in 1..Len(msgs)
    /\ msgs[m].pc = "getLogs"
    /\ msgs' = [msgs EXCEPT ![m] =
                   SendResponse(Settled(@, ok), Responded(TRUE,
                                             [kind |-> "settings",
                                              settings |-> msgs[m].settings,
                                              logs |-> getLogs(ok)], ""))]
    /\ UNCHANGED <<pureVars, redirectedTabs, syncData, localData, nav, browserNav,
                   closedTabs, navCalls, notifications, events, ownNavPending>>

\* updateSettings: `await chrome.storage.sync.get(...)` settles. Rejected:
\* the error is rethrown up to handleMessage, which answers success false.
\* Fulfilled: data.settings = settings and chrome.storage.sync.set is called.
UpdateSyncRead(m, ok) ==
    /\ m \in 1..Len(msgs)
    /\ msgs[m].pc = "updGet"
    /\ msgs' = [msgs EXCEPT ![m] =
                   IF ok
                   THEN [@ EXCEPT !.pc = "updSet",
                                  !.data = [DataOrDefault(syncData)
                                              EXCEPT !.settings = msgs[m].settings]]
                   ELSE SendResponse(Settled(@, ok), Response(FALSE))]
    /\ UNCHANGED <<pureVars, redirectedTabs, syncData, localData, nav, browserNav,
                   closedTabs, navCalls, notifications, events, ownNavPending>>

\* updateSettings: `await chrome.storage.sync.set(...)` settles, and
\* handleMessage sends its response.
UpdateWritten(m, ok) ==
    /\ m \in 1..Len(msgs)
    /\ msgs[m].pc = "updSet"
    /\ syncData' = IF ok THEN msgs[m].data ELSE syncData
    /\ msgs' = [msgs EXCEPT ![m] = SendResponse(Settled(@, ok), Response(ok))]
    /\ UNCHANGED <<pureVars, redirectedTabs, localData, nav, browserNav,
                   closedTabs, navCalls, notifications, events, ownNavPending>>

----------------------------------------------------------------------------
(* The service's specification *)

Flags(isEnabled, isRegex) == [isEnabled |-> isEnabled, isRegex |-> isRegex]

\* A wildcard rule for every URL with an "a" in it, wrapping it into
\* "http://b/?url=...": the destination matches the rule again.
RuleWrap == MkRule(1, <<"a">>, <<"h", "t", "t", "p", ":", "/", "/", "b", "/">>, Flags(TRUE, FALSE))

\* A rule that replaces the host by "a": for "http://a/" the built URL is
\* the URL itself.
RuleHostA == MkRule(2, <<"*">>, <<"a">>, Flags(TRUE, FALSE))

\* A rule with a path-bearing prefix, "b/": the built URL has no scheme.
RulePath == MkRule(3, <<"b">>, <<"b", "/">>, Flags(TRUE, TRUE))

\* A rule whose full-URL prefix, "http://?", does not parse: the builder
\* fails soft and returns the URL itself.
RuleBadPrefix == MkRule(4, <<"b">>, <<"h", "t", "t", "p", ":", "/", "/", "?">>, Flags(TRUE, FALSE))

StoredRuleLists ==
    { <<RuleWrap>>, <<RuleBadPrefix, RuleHostA>>, <<RulePath, RuleWrap>> }

Settings(isEnabled, rules, showNotifications, logRedirects) ==
    [isEnabled |-> isEnabled, rules |-> rules,
     showNotifications |-> showNotifications, logRedirects |-> logRedirects]

\* Each rule list with everything switched on, and one list with each
\* switch off in turn.
StoredSettings ==
    { Settings(TRUE, rules, TRUE, TRUE) : rules \in StoredRuleLists }
        \cup { Settings(FALSE, <<RuleWrap>>, TRUE, TRUE),
               Settings(TRUE, <<RuleWrap>>, FALSE, TRUE),
               Settings(TRUE, <<RuleWrap>>, TRUE, FALSE) }

\* The stores outlive the service worker: at construction they hold what
\* earlier runs have written, or nothing.
Init ==
    /\ NoDirectCall
    /\ ServiceConstructed
    /\ localData = NoData
    /\ \/ syncData = NoData
       \/ \E st \in StoredSettings :
              syncData = [present |-> TRUE, settings |-> st, logs |-> <<>>]

Next ==
    \/ \E t \in Tabs, f \in {0, 1}, u \in NavUrls : UserNavigates(t, f, u)
    \/ \E t \in Tabs : UpdateNavigates(t)
    \/ \E t \in Tabs : TabRemoved(t)
    \/ \E h \in 1..Len(nav), ok \in BOOLEAN, updateOk \in BOOLEAN : SettingsRead(h, ok, updateOk)
    \/ \E h \in 1..Len(nav) : TabUpdated(h)
    \/ \E h \in 1..Len(nav), ok \in BOOLEAN : LogsRead(h, ok)
    \/ \E h \in 1..Len(nav), ok \in BOOLEAN : LogSyncRead(h, ok)
    \/ \E h \in 1..Len(nav), ok \in BOOLEAN : LogWritten(h, ok)
    \/ \E type \in MessageTypes : MessageReceived(type)
    \/ \E m \in 1..Len(msgs), ok \in BOOLEAN : ClearSyncRead(m, ok)
    \/ \E m \in 1..Len(msgs), ok \in BOOLEAN : ClearWritten(m, ok)

Spec == Init /\ [][Next]_vars

----------------------------------------------------------------------------
(* The service with a log store that is nearly full or full *)

\* An entry written by an earlier run; k counts from the newest. Only its
\* identity is kept.
EarlierEntry(k) == [id |-> 0 - k]

LoggingSettings == Settings(TRUE, <<RuleWrap>>, FALSE, TRUE)

InitLog ==
    /\ NoDirectCall
    /\ ServiceConstructed
    /\ syncData = [present |-> TRUE, settings |-> LoggingSettings, logs |-> <<>>]
    /\ \E n \in {MAX_LOGS - 1, MAX_LOGS} :
           localData = [present |-> TRUE, settings |-> LoggingSettings,
                        logs |-> [k \in 1..n |-> EarlierEntry(k)]]

SpecLog == InitLog /\ [][Next]_vars

----------------------------------------------------------------------------
(* The service under messages from the popup *)

MaxCommands == 2

Message(type, data) == [type |-> type, data |-> data]

RuleHostAOff == MkRule(2, <<"*">>, <<"a">>, Flags(FALSE, FALSE))

\* The settings the popup sends with UPDATE_SETTINGS.
SentSettings == Settings(TRUE, <<RuleHostA>>, FALSE, FALSE)

\* A rule id that no stored or sent rule has.
MissingRuleId == 9

\* A rule id that is stored at first (RuleWrap's), and one that never is.
SentRuleIds == {1, MissingRuleId}

\* The `updates` the popup sends with UPDATE_RULE: a toggle, and a payload
\* that names the id field (Partial<RedirectRule>) with an id, 7, that no
\* rule was created with.
SentUpdates == { [isEnabled |-> FALSE], [id |-> 7] }

TestUrls == { <<"h", "t", "t", "p", ":", "/", "/", "a", "/">>, <<"b">> }

TestRules == { RuleWrap, RuleHostAOff }

\* Every operation of handleMessage but TEST_RULE, and a type it does not
\* know.
Messages ==
    { Message("GET_SETTINGS", NoArg), Message("CLEAR_LOGS", NoArg),
      Message("PING", NoArg), Message("UPDATE_SETTINGS", SentSettings) }
        \cup { Message("ADD_RULE", rule) : rule \in {RulePath, RuleHostA} }
        \cup { Message("UPDATE_RULE", [id |-> id, updates |-> updates]) :
                   id \in SentRuleIds, updates \in SentUpdates }
        \cup { Message("DELETE_RULE", [id |-> id]) : id \in SentRuleIds }

TestMessages ==
    { Message("TEST_RULE", [url |-> url, rule |-> rule]) :
          url \in TestUrls, rule \in TestRules }

\* chrome.runtime.onMessage with a message of the popup.
CommandReceived(message) == HandleMessage(message, MaxCommands)

\* chrome.runtime.onMessage with a TEST_RULE message of the popup.
TestRuleReceived(message) == HandleTestRule(message, MaxCommands)

StoredAtFirst == Settings(TRUE, <<RuleWrap>>, FALSE, FALSE)

InitCmd ==
    /\ NoDirectCall
    /\ ServiceConstructed
    /\ \/ syncData = NoData
       \/ syncData = [present |-> TRUE, settings |-> StoredAtFirst, logs |-> <<>>]
    /\ \/ localData = NoData
       \/ localData = [present |-> TRUE, settings |-> StoredAtFirst,
                       logs |-> <<EarlierEntry(1)>>]

NextCmd ==
    \/ \E message \in Messages : CommandReceived(message)
    \/ \E message \in TestMessages : TestRuleReceived(message)
    \/ \E m \in 1..Len(msgs), ok \in BOOLEAN : CommandSettingsRead(m, ok)
    \/ \E m \in 1..Len(msgs), ok \in BOOLEAN : CommandLogsRead(m, ok)
    \/ \E m \in 1..Len(msgs), ok \in BOOLEAN : UpdateSyncRead(m, ok)
    \/ \E m \in 1..Len(msgs), ok \in BOOLEAN : UpdateWritten(m, ok)
    \/ \E m \in 1..Len(msgs), ok \in BOOLEAN : ClearSyncRead(m, ok)
    \/ \E m \in 1..Len(msgs), ok \in BOOLEAN : ClearWritten(m, ok)

SpecCmd == InitCmd /\ [][NextCmd]_vars

----------------------------------------------------------------------------
(* Rule edits from the popup and one navigation of a tab; the browser's    *)
(* announcement of the redirect's own navigation is not awaited.            *)

\* The messages that add a rule.
EditMessages == { Message("ADD_RULE", rule) : rule \in {RulePath, RuleHostA} }

InitEdit ==
    /\ NoDirectCall
    /\ ServiceConstructed
    /\ localData = NoData
    /\ \/ syncData = NoData
       \/ syncData = [present |-> TRUE, settings |-> StoredAtFirst, logs |-> <<>>]

NextEdit ==
    \/ \E message \in EditMessages : CommandReceived(message)
    \/ \E m \in 1..Len(msgs), ok \in BOOLEAN : CommandSettingsRead(m, ok)
    \/ \E m \in 1..Len(msgs), ok \in BOOLEAN : UpdateSyncRead(m, ok)
    \/ \E m \in 1..Len(msgs), ok \in BOOLEAN : UpdateWritten(m, ok)
    \/ \E u \in NavUrls : nav = <<>> /\ UserNavigates(1, 0, u)
    \/ \E h \in 1..Len(nav), ok \in BOOLEAN, updateOk \in BOOLEAN : SettingsRead(h, ok, updateOk)
    \/ \E h \in 1..Len(nav) : TabUpdated(h)
    \/ \E h \in 1..Len(nav), ok \in BOOLEAN : LogsRead(h, ok)
    \/ \E h \in 1..Len(nav), ok \in BOOLEAN : LogSyncRead(h, ok)
    \/ \E h \in 1..Len(nav), ok \in BOOLEAN : LogWritten(h, ok)

SpecEdit == InitEdit /\ [][NextEdit]_vars

----------------------------------------------------------------------------
(* Claims about handleNavigation and the log store *)

Handlers == 1..Len(nav)

\* The invocation has got past its settings read.
HasReadSettings(h) == nav[h].pc # "getSettings"

\* The invocation called chrome.tabs.update.
IssuedNavigation(h) == \E c \in navCalls : c.id = h

\* The step swallows a navigation event on the tab: the tab leaves the
\* pending set although it is not being closed.
Swallows(tab) ==
    /\ tab \in redirectedTabs
    /\ tab \notin redirectedTabs'
    /\ closedTabs' = closedTabs

\* The step delivers a navigation event caused by the user.
UserEventStep == events' = events + 1

\* C2, in states: a tab is in the pending set exactly from the programmatic
\* navigation issued for it until the next main-frame navigation event on it
\* (or its closure), so that event is the one swallowed and the one after it
\* finds the tab Idle.
C2_PendingUntilNextEvent == redirectedTabs = ownNavPending

\* C2, in steps: a swallowed event only takes the tab out of the pending
\* set (no settings read, no matching, no navigation, no log, no
\* notification); any other user event on a main frame starts a handler
\* that reads the settings, for a tab that is not pending.
C2_SwallowOnly ==
    /\ \A t \in Tabs :
           Swallows(t) =>
               /\ redirectedTabs' = redirectedTabs \ {t}
               /\ UNCHANGED <<nav, msgs, syncData, localData, navCalls, notifications>>
    /\ (UserEventStep /\ redirectedTabs' = redirectedTabs /\ nav' # nav) =>
           /\ Len(nav') = Len(nav) + 1
           /\ nav'[Len(nav')].pc = "getSettings"
           /\ nav'[Len(nav')].tab \notin redirectedTabs

\* C2: after handleNavigation issues a programmatic navigation for a tab,
\* the very next main-frame navigation event for it is swallowed and returns
\* the tab to Idle, exactly once: the event after it is matched normally.
C2_SwallowedExactlyOnce ==
    [] C2_PendingUntilNextEvent /\ [][C2_SwallowOnly]_vars

\* C2 witness: the first handler redirected its tab, the browser's event for
\* that navigation was swallowed, and a later user event on the same tab
\* went through matching.
C2_Witness ==
    /\ Len(nav) = 2
    /\ events = 2
    /\ nav[1].tab = nav[2].tab
    /\ IssuedNavigation(1)
    /\ nav[1].updateOk
    /\ PassesFilter(nav[1].redirectUrl)
    /\ browserNav[nav[1].tab] = <<>>
    /\ nav[1].tab \notin redirectedTabs
    /\ nav[1].tab \notin closedTabs
    /\ nav[2].origin = "user"
    /\ nav[2].matching
    /\ nav[2].pc = "done"

\* C3 as stated: in every interleaving, no navigation event caused by the
\* service's own chrome.tabs.update call is passed to rule matching.
C3_OwnNavigationNeverMatched ==
    \A h \in Handlers : nav[h].origin = "update" => ~nav[h].matching

\* C4, in states: an invocation whose built URL is the navigation URL has
\* returned without a chrome.tabs.update call, a log entry or a
\* notification.
C4_NoEffects ==
    \A h \in Handlers :
        (HasReadSettings(h) /\ nav[h].rule # NoRule /\ nav[h].redirectUrl = nav[h].url) =>
            /\ nav[h].pc = "done"
            /\ ~IssuedNavigation(h)
            /\ \A n \in notifications : n.id # h
            /\ \A i \in 1..Len(localData.logs) : localData.logs[i].id # h

\* C4, in steps: the settings read of such an invocation leaves the pending
\* set as it is.
C4_NoPending ==
    \A h \in Handlers :
        (/\ nav[h].pc = "getSettings"
         /\ nav'[h].pc # "getSettings"
         /\ nav'[h].rule # NoRule
         /\ nav'[h].redirectUrl = nav[h].url) =>
            UNCHANGED <<redirectedTabs, navCalls, notifications, localData, browserNav>>

\* C4: if the built URL is identical to the navigation URL, handleNavigation
\* issues no programmatic navigation, writes no log entry, shows no
\* notification and does not put the tab into the pending set.
C4_IdenticalUrlIsNoRedirect == [] C4_NoEffects /\ [][C4_NoPending]_vars

\* C4 witness: two invocations have returned with a rule matched and a built
\* URL equal to the navigation URL, one of them by the builder's fail-soft
\* return.
C4_Witness ==
    \E h, k \in Handlers :
        /\ nav[h].pc = "done"
        /\ nav[h].rule = RuleHostA
        /\ nav[h].redirectUrl = nav[h].url
        /\ nav[k].pc = "done"
        /\ nav[k].rule = RuleBadPrefix
        /\ nav[k].redirectUrl = nav[k].url

\* C10: the stored log never holds more than 1000 entries, whatever the
\* interleaving of addLog and clearLogs.
C10_LogBounded == Len(localData.logs) <= MAX_LOGS

\* C10 witness: addLog has written to a log that was full: the new entry is
\* first, the store holds MAX_LOGS entries and the oldest one is gone.
C10_Witness ==
    /\ Len(localData.logs) = MAX_LOGS
    /\ localData.logs[1].id >= 1
    /\ localData.logs[MAX_LOGS] = EarlierEntry(MAX_LOGS - 1)

\* The step in which the addLog call of invocation h stores its list.
AddLogStores(h) ==
    /\ nav[h].pc = "localSet"
    /\ nav'[h].pc = "done"
    /\ localData' # localData

\* C11 as stated: a completed addLog puts the new entry first and keeps the
\* entries the log held, in their order; only when the log held 1000 entries
\* is one dropped, the last of the sequence.
C11_NewestFirstOldestDropped ==
    [][\A h \in Handlers :
           AddLogStores(h) =>
               LET old == localData.logs
                   new == localData'.logs
               IN  /\ Len(new) = (IF Len(old) < MAX_LOGS THEN Len(old) + 1 ELSE MAX_LOGS)
                   /\ new[1].id = h
                   /\ \A i \in 2..Len(new) : new[i] = old[i - 1]]_vars

----------------------------------------------------------------------------
(* Claims about handleMessage *)

Commands == 1..Len(msgs)

\* The invocation has called sendResponse.
Answered(m) == msgs[m].response.sent

\* C12 as stated: UPDATE_RULE or DELETE_RULE naming a rule id that is not
\* stored is answered with success false, never with success.
C12_MissingRuleFails ==
    \A m \in Commands :
        (/\ msgs[m].type \in {"UPDATE_RULE", "DELETE_RULE"}
         /\ msgs[m].arg.id = MissingRuleId
         /\ Answered(m)) => ~msgs[m].response.success

\* C13 as stated: a command during which a store read or a store write
\* failed is answered with success false.
C13_StoreFailureFails ==
    \A m \in Commands :
        (Answered(m) /\ msgs[m].failed) => ~msgs[m].response.success


\* The operations handleMessage has a case for.
KnownTypes ==
    {"GET_SETTINGS", "UPDATE_SETTINGS", "ADD_RULE", "UPDATE_RULE",
     "DELETE_RULE", "CLEAR_LOGS", "TEST_RULE"}

\* C14, in states: an invocation has called sendResponse once when it has
\* returned and not before, with { success, data?, error? } where error is
\* there exactly on failure; a message of an unknown type has got
\* { success: false, error: "Unknown message type" }.
C14_AnsweredOnce ==
    \A m \in Commands :
        /\ msgs[m].sends = (IF msgs[m].pc = "done" THEN 1 ELSE 0)
        /\ Answered(m) <=> msgs[m].pc = "done"
        /\ Answered(m) =>
               /\ msgs[m].response.success \in BOOLEAN
               /\ msgs[m].response.success <=> msgs[m].response.error = ""
               /\ ~msgs[m].response.success => msgs[m].response.data = NoValue
        /\ msgs[m].type \notin KnownTypes =>
               msgs[m].response =
                   [sent |-> TRUE, success |-> FALSE, data |-> NoValue,
                    error |-> "Unknown message type"]

\* C14, in steps: receiving a message of an unknown type changes neither
\* the stored settings, the logs nor the pending set.
C14_UnknownChangesNothing ==
    (/\ Len(msgs') = Len(msgs) + 1
     /\ msgs'[Len(msgs')].type \notin KnownTypes) =>
        UNCHANGED <<syncData, localData, redirectedTabs>>

\* C14: every message gets exactly one response { success, data?, error? },
\* and a message of an unknown type gets the "Unknown message type" failure
\* and changes nothing.
C14_OneResponseUnknownRejected ==
    [] C14_AnsweredOnce /\ [][C14_UnknownChangesNothing]_vars

\* C14 witness: a message of an unknown type and an ADD_RULE that went
\* through its three storage calls have both been answered.
C14_Witness ==
    \E m, k \in Commands :
        /\ msgs[m].type = "PING"
        /\ msgs[m].sends = 1
        /\ msgs[k].type = "ADD_RULE"
        /\ msgs[k].sends = 1
        /\ msgs[k].response.success


\* The step in which a TEST_RULE message is received.
ReceivesTestRule ==
    /\ Len(msgs') = Len(msgs) + 1
    /\ msgs'[Len(msgs')].type = "TEST_RULE"

\* C20, in states: TEST_RULE(url, rule) is answered at once with success
\* and { matches, redirectUrl }, where matches says whether
\* findMatchingRule(url, [rule]) found the rule, and redirectUrl is there
\* exactly when matches is true and is then buildRedirectUrl(url, rule).
C20_TestResult ==
    \A m \in Commands :
        msgs[m].type = "TEST_RULE" =>
            LET url == msgs[m].arg.url
                rule == msgs[m].arg.rule
                result == msgs[m].response.data
            IN  /\ Answered(m)
                /\ msgs[m].response.success
                /\ result.matches = (findMatchingRule(url, <<rule>>) # NoRule)
                /\ result.redirectUrl.present = result.matches
                /\ result.matches =>
                       result.redirectUrl.value = buildRedirectUrl(url, rule).value

\* C20, in steps: serving TEST_RULE changes neither the stored settings,
\* the logs nor the pending set, and issues no navigation.
C20_TestChangesNothing ==
    ReceivesTestRule =>
        UNCHANGED <<syncData, localData, redirectedTabs, navCalls, browserNav>>

\* C20: TEST_RULE reports the matcher's and the builder's results for the
\* rule and has no effect on the service's state.
C20_TestRuleIsPure == [] C20_TestResult /\ [][C20_TestChangesNothing]_vars

\* C20 witness: a TEST_RULE whose rule matches and wraps the URL has been
\* answered, and one whose rule is switched off.
C20_Witness ==
    \E m, k \in Commands :
        /\ msgs[m].type = "TEST_RULE"
        /\ msgs[m].arg.rule = RuleWrap
        /\ msgs[m].response.data.matches
        /\ msgs[m].response.data.redirectUrl.present
        /\ msgs[m].response.data.redirectUrl.value # msgs[m].arg.url
        /\ msgs[k].type = "TEST_RULE"
        /\ msgs[k].arg.rule = RuleHostAOff
        /\ ~msgs[k].response.data.matches
        /\ ~msgs[k].response.data.redirectUrl.present


\* The rules of a list, as a set.
RulesOf(rules) == { rules[i] : i \in 1..Len(rules) }

\* The settings a successful read of the store yields now.
StoredNow == DataOrDefault(syncData).settings

\* C15, in states: the rule of every ADD_RULE that was answered with
\* success is in the stored rule list (no message here removes a rule), so
\* a navigation that starts now is matched against a list that has it.
C15_StoreHasEdits ==
    \A m \in Commands :
        (msgs[m].type = "ADD_RULE" /\ Answered(m) /\ msgs[m].response.success) =>
            msgs[m].arg \in RulesOf(StoredNow.rules)

\* C15, in steps: a navigation handler whose settings read settles is
\* matched against the rule list the store holds at that moment, or against
\* no rule when the read failed.
C15_ReadsStore ==
    \A h \in Handlers :
        (nav[h].pc = "getSettings" /\ nav'[h].pc # "getSettings") =>
            \/ nav'[h].rule = NoRule
            \/ /\ StoredNow.isEnabled
               /\ nav'[h].rule = findMatchingRule(nav[h].url, StoredNow.rules)

\* C15 as stated: settings are read from the store on every navigation, and
\* every navigation that starts after a settings-changing command returned
\* success is matched against the rule list as changed by that command.
C15_EditsReachNavigation == [] C15_StoreHasEdits /\ [][C15_ReadsStore]_vars

----------------------------------------------------------------------------
(* Claims about tab closure, frames, notifications and the master switch *)

\* C16 as stated: once the closure of a tab has been handled, the tab is
\* not in the pending set in any later state (no navigation event arrives
\* for a closed tab), also when a handler for it was awaiting its settings
\* read at the moment of closure.
C16_ClosedTabIsIdle == \A t \in closedTabs : t \notin redirectedTabs

\* C17: a navigation event with frameId # 0 causes no settings read, no
\* programmatic navigation, no log entry and no notification, and leaves the
\* pending set unchanged.
C17_SubFrameIgnored ==
    [][\A t \in Tabs, u \in NavUrls :
           UserNavigates(t, 1, u) =>
               UNCHANGED <<redirectedTabs, nav, navCalls, browserNav,
                           notifications, localData, syncData, msgs>>]_vars

\* C17 witness: there were two events and one of them started no handler
\* and consumed nothing: the tab that was redirected is still pending and
\* the browser has not yet announced its navigation.
C17_Witness ==
    /\ events = 2
    /\ Len(nav) = 1
    /\ IssuedNavigation(1)
    /\ nav[1].tab \in redirectedTabs
    /\ browserNav[nav[1].tab] # <<>>

\* C18: a notification is created only by an invocation that issued a
\* programmatic navigation that went through and whose settings read had
\* showNotifications true; with showNotifications false in the store no
\* notification is ever created.
C18_NotifiedOnlyWhenEnabled ==
    /\ \A n \in notifications :
           /\ n.id \in Handlers
           /\ IssuedNavigation(n.id)
           /\ nav[n.id].updateOk
           /\ nav[n.id].showNotifications
           /\ StoredNow.showNotifications
    /\ (syncData.present /\ ~syncData.settings.showNotifications) =>
           notifications = {}

\* C18 witness: an invocation has redirected and notified, and another has
\* redirected without reaching the notification because its
\* chrome.tabs.update call was rejected.
C18_Witness ==
    \E h, k \in Handlers :
        /\ nav[h].pc = "done"
        /\ IssuedNavigation(h)
        /\ \E n \in notifications : n.id = h
        /\ nav[k].pc = "done"
        /\ IssuedNavigation(k)
        /\ ~nav[k].updateOk
        /\ \A n \in notifications : n.id # k

\* C19, in states: with isEnabled false in the settings read, the
\* invocation has returned without a programmatic navigation, a log entry
\* or a notification.
C19_NoEffects ==
    \A h \in Handlers :
        (HasReadSettings(h) /\ syncData.present /\ ~syncData.settings.isEnabled) =>
            /\ nav[h].pc = "done"
            /\ ~IssuedNavigation(h)
            /\ \A n \in notifications : n.id # h
            /\ \A i \in 1..Len(localData.logs) : localData.logs[i].id # h

\* C19, in steps: the settings read of such an invocation leaves the pending
\* set, and everything else but the invocation, as it is.
C19_NoPending ==
    \A h \in Handlers :
        (/\ nav[h].pc = "getSettings"
         /\ nav'[h].pc # "getSettings"
         /\ syncData.present
         /\ ~syncData.settings.isEnabled) =>
            UNCHANGED <<redirectedTabs, navCalls, notifications, localData, browserNav>>

\* C19: when the settings read have isEnabled false, handleNavigation issues
\* no navigation, writes no log entry, shows no notification and leaves the
\* pending set unchanged, whatever the rules are.
C19_SwitchedOffDoesNothing == [] C19_NoEffects /\ [][C19_NoPending]_vars

\* C19 witness: an invocation for a URL that a stored, enabled rule matches
\* has returned after reading settings with isEnabled false.
C19_Witness ==
    \E h \in Handlers :
        /\ nav[h].pc = "done"
        /\ ~nav[h].matching
        /\ syncData.present
        /\ ~syncData.settings.isEnabled
        /\ findMatchingRule(nav[h].url, syncData.settings.rules) # NoRule

----------------------------------------------------------------------------
(* Claims about the stored rule list *)

\* The ids rules were created with: of the rule stored at first and of the
\* rules the popup adds or sends with the settings.
CreatedIds == { RuleWrap.id, RuleHostA.id, RulePath.id }

\* C21 as stated: whatever UPDATE_RULE commands were served, with whatever
\* `updates`, every stored rule has the id it was created with.
C21_IdImmutable ==
    \A rule \in RulesOf(StoredNow.rules) : rule.id \in CreatedIds


----------------------------------------------------------------------------
(* Wildcard-mode matching: one enabled wildcard rule, every pattern of up  *)
(* to MaxWildcardLen characters over letters, '.', '*' and '?'.            *)

MaxWildcardLen == 3

WildcardPatterns == StringsUpTo({"a", "c", ".", "*", "?"}, MaxWildcardLen)

WildcardUrls ==
    StringsUpTo({"a", "b", "c", "."}, MaxWildcardLen)
        \cup { <<"a", "b", "b", "c">>, <<"A", "b", "C">>, <<"b", "a", ".", "c">> }

InitWildcard ==
    /\ call \in [op : {"findMatchingRule"}, url : WildcardUrls,
                 rules : { <<MkRule(1, p, <<"b">>, Flags(TRUE, FALSE))>> :
                               p \in WildcardPatterns }]
    /\ ret = NotReturned
    /\ ServiceConstructed
    /\ EmptyStores

SpecWildcard == InitWildcard /\ [][NextMatch]_vars

\* Two characters that are equal or differ only in case.
CasePairs == { <<"a", "A">>, <<"b", "B">>, <<"c", "C">> }

SameIgnoringCase(x, y) == x = y \/ <<x, y>> \in CasePairs \/ <<y, x>> \in CasePairs

\* The wildcard reading of a pattern, written out without regular
\* expressions: pattern[i..] matches a stretch of s that starts at position j.
\*   '*' : any stretch, the empty one included
\*   '?' : exactly one character
\*   any other character, '.' included: that character, in either case
RECURSIVE GlobMatchesAt(_, _, _, _)
GlobMatchesAt(pattern, i, s, j) ==
    IF i > Len(pattern) THEN TRUE
    ELSE IF pattern[i] = "*"
         THEN \E k \in j..(Len(s) + 1) : GlobMatchesAt(pattern, i + 1, s, k)
    ELSE IF j > Len(s) THEN FALSE
    ELSE IF pattern[i] = "?" THEN GlobMatchesAt(pattern, i + 1, s, j + 1)
    ELSE SameIgnoringCase(pattern[i], s[j]) /\ GlobMatchesAt(pattern, i + 1, s, j + 1)

\* The pattern matches somewhere in s (not anchored to the whole string).
GlobMatches(pattern, s) ==
    \E j \in 1..(Len(s) + 1) : GlobMatchesAt(pattern, 1, s, j)

Str_aQc == <<"a", "?", "c">>

\* C22: in wildcard mode '.' matches only a literal dot, '*' any (possibly
\* empty) sequence of characters, '?' exactly one character, and the pattern
\* may match anywhere in the URL: the enabled wildcard rule is returned
\* exactly when its pattern, read as a wildcard, matches a stretch of the
\* URL; `a?c` does not match `ac` or `abbc`.
C22_WildcardSemantics ==
    (Returned /\ Len(call.rules) = 1 /\ call.rules[1].isEnabled
              /\ ~call.rules[1].isRegex) =>
        /\ ret = (IF GlobMatches(call.rules[1].pattern, call.url)
                  THEN call.rules[1] ELSE NoRule)
        /\ (call.rules[1].pattern = Str_aQc
              /\ call.url \in { <<"a", "c">>, <<"a", "b", "b", "c">> })
           => ret = NoRule

\* C22 witness: the wildcard rule `a?c` was matched against `abc` and returned.
C22_Witness ==
    /\ Returned
    /\ Len(call.rules) = 1
    /\ ~call.rules[1].isRegex
    /\ call.rules[1].pattern = Str_aQc
    /\ call.url = <<"a", "b", "c">>
    /\ ret = call.rules[1]


----------------------------------------------------------------------------
(* Claims about the handlers' use of the pending set and of the log *)

\* The programmatic navigation of handler h is in flight or was performed.
NavigationNotFailed(h) ==
    /\ IssuedNavigation(h)
    /\ nav[h].pc = "tabsUpdate" \/ nav[h].updateOk

\* C23 as stated: a tab is in the pending set only if a programmatic
\* navigation of that tab succeeded (or its call has not settled yet); a
\* failed navigate call does not leave the tab in the set.
C23_PendingOnlyAfterNavigation ==
    \A t \in redirectedTabs :
        \E h \in Handlers : nav[h].tab = t /\ NavigationNotFailed(h)


\* The handlers that have started and not yet returned.
Running == { h \in Handlers : nav[h].pc # "done" }

\* C24 as stated: navigation events are handled one at a time, the handling
\* of one event is over before the handling of the next begins: at most one
\* handler is between its start and its return.
C24_OneHandlerAtATime == Cardinality(Running) <= 1


\* The log entries of handler h that are stored.
StoredEntries(h) ==
    { i \in 1..Len(localData.logs) : localData.logs[i].id = h }

\* The addLog calls that hold an entry of handler h, stored or not.
HeldEntries(h) ==
    { k \in Handlers :
          \/ \E i \in 1..Len(nav[k].logs) : nav[k].logs[i].id = h
          \/ \E i \in 1..Len(nav[k].data.logs) : nav[k].data.logs[i].id = h }

\* C25: a log entry is written only for a performed redirect: every stored
\* entry belongs to a navigation event whose programmatic navigation call
\* succeeded and whose settings read had logRedirects true, and its
\* originalUrl, redirectedUrl, ruleId, ruleName and tabId are those of the
\* event, of the URL the tab was sent to and of the matched rule; when the
\* navigate call fails or logRedirects is false no entry is added.
C25_LoggedOnlyWhenPerformed ==
    /\ \A i \in 1..Len(localData.logs) :
           LET e == localData.logs[i]
           IN  /\ e.id \in Handlers
               /\ nav[e.id].updateOk
               /\ nav[e.id].logRedirects
               /\ e.originalUrl = nav[e.id].url
               /\ e.tabId = nav[e.id].tab
               /\ nav[e.id].rule # NoRule
               /\ e.ruleId = nav[e.id].rule.id
               /\ e.ruleName = nav[e.id].rule.name
               /\ e.redirectedUrl = buildRedirectUrl(e.originalUrl, nav[e.id].rule).value
               /\ [id |-> e.id, tab |-> e.tabId, url |-> e.redirectedUrl] \in navCalls
    /\ \A h \in Handlers :
           (~nav[h].updateOk \/ ~nav[h].logRedirects) =>
               StoredEntries(h) = {} /\ HeldEntries(h) = {}

\* C25 witness: one redirect was performed and its entry is stored, another
\* handler's navigate call failed and it has returned without an entry.
C25_Witness ==
    \E h, k \in Handlers :
        /\ nav[h].pc = "done"
        /\ StoredEntries(h) # {}
        /\ nav[k].pc = "done"
        /\ IssuedNavigation(k)
        /\ ~nav[k].updateOk
        /\ nav[k].logRedirects
        /\ StoredEntries(k) = {}


----------------------------------------------------------------------------
(* Rule commands served one at a time: the popup sends the next command    *)
(* when the previous one was answered.                                     *)

MaxSerialCommands == 3

SerialMessages ==
    { Message("ADD_RULE", rule) : rule \in {RulePath, RuleHostA} }
        \cup { Message("UPDATE_RULE", [id |-> rule.id, updates |-> [isEnabled |-> FALSE]]) :
                   rule \in {RuleWrap, RulePath} }
        \cup { Message("DELETE_RULE", [id |-> rule.id]) : rule \in {RuleWrap, RulePath} }

\* chrome.runtime.onMessage with a rule command, sent when every earlier
\* command was answered; a new rule carries a fresh id
\* (StorageManager.generateId).
SerialCommandReceived(message) ==
    /\ \A m \in 1..Len(msgs) :
           /\ msgs[m].pc = "done"
           /\ (message.type = "ADD_RULE" /\ msgs[m].type = "ADD_RULE")
                  => msgs[m].arg.id # message.data.id
    /\ HandleMessage(message, MaxSerialCommands)

NextSerial ==
    \/ \E message \in SerialMessages : SerialCommandReceived(message)
    \/ \E m \in 1..Len(msgs), ok \in BOOLEAN : CommandSettingsRead(m, ok)
    \/ \E m \in 1..Len(msgs), ok \in BOOLEAN : UpdateSyncRead(m, ok)
    \/ \E m \in 1..Len(msgs), ok \in BOOLEAN : UpdateWritten(m, ok)

\* The store at construction is the one of SpecEdit: empty, or one rule.
SpecSerial == InitEdit /\ [][NextSerial]_vars

\* Command m completes in this step: its write has settled and success is
\* answered.
CompletesNow(m) ==
    /\ msgs[m].pc = "updSet"
    /\ msgs'[m].pc = "done"
    /\ msgs'[m].response.success

\* The stored rule list after a command, given the list before it.
RulesAfter(msg, before) ==
    CASE msg.type = "ADD_RULE" -> before \o <<msg.arg>>
      [] msg.type = "UPDATE_RULE" ->
             [i \in 1..Len(before) |->
                 IF before[i].id = msg.arg.id
                 THEN [before[i] EXCEPT !.isEnabled = msg.arg.updates.isEnabled]
                 ELSE before[i]]
      [] msg.type = "DELETE_RULE" ->
             SelectSeq(before, LAMBDA rule : rule.id # msg.arg.id)

\* C26, in steps: a completed ADD_RULE leaves the new rule after all rules
\* that were stored, UPDATE_RULE leaves the updated rule at its position and
\* the others as they were, DELETE_RULE leaves the rules with another id in
\* their order.
C26_OrderKept ==
    \A m \in 1..Len(msgs) :
        CompletesNow(m) =>
            DataOrDefault(syncData').settings.rules = RulesAfter(msgs[m], StoredNow.rules)

\* The positions of the stored rules with the given id.
PositionsOf(ruleId) ==
    { i \in 1..Len(StoredNow.rules) : StoredNow.rules[i].id = ruleId }

SerialUrls == { <<"b">>, <<"a", "b">>, <<"h", "t", "t", "p", ":", "/", "/", "b", "/">> }

\* C26, in states: of two added rules that are stored, the one added earlier
\* stands before the one added later, and the later one is never the match
\* for a URL that the earlier one, enabled, matches.
C26_EarlierWins ==
    \A m1, m2 \in 1..Len(msgs) :
        (/\ m1 < m2
         /\ msgs[m1].type = "ADD_RULE" /\ msgs[m1].pc = "done"
         /\ msgs[m2].type = "ADD_RULE" /\ msgs[m2].pc = "done") =>
            \A i \in PositionsOf(msgs[m1].arg.id), j \in PositionsOf(msgs[m2].arg.id) :
                /\ i < j
                /\ \A url \in SerialUrls :
                       (StoredNow.rules[i].isEnabled
                          /\ TryMatch(StoredNow.rules[i], url) = "match")
                       => findMatchingRule(url, StoredNow.rules) # StoredNow.rules[j]

\* C26 as stated: insertion order is match priority: ADD_RULE appends the new rule
\* after all existing rules, UPDATE_RULE keeps the updated rule at its
\* position, DELETE_RULE removes only the rules with the given id and keeps
\* the order of the others; after any sequence of these commands run one at
\* a time a rule added earlier is matched in preference to one added later.
C26_InsertionOrderIsPriority == [] C26_EarlierWins /\ [][C26_OrderKept]_vars

----------------------------------------------------------------------------
(* Claims about rule commands served concurrently or with a failing store *)

\* Command m was answered with success and none of its store calls failed.
Succeeded(m) ==
    /\ Answered(m)
    /\ msgs[m].response.success
    /\ ~msgs[m].failed

\* C27 as stated: no lost rule update: when two ADD_RULE commands for
\* different rules have both returned success, both rules are stored.
C27_NoLostRuleUpdate ==
    \A m1, m2 \in Commands :
        (/\ msgs[m1].type = "ADD_RULE" /\ Succeeded(m1)
         /\ msgs[m2].type = "ADD_RULE" /\ Succeeded(m2)
         /\ msgs[m1].arg.id # msgs[m2].arg.id) =>
            {msgs[m1].arg, msgs[m2].arg} \subseteq RulesOf(StoredNow.rules)


RuleCommands == {"ADD_RULE", "UPDATE_RULE", "DELETE_RULE"}

\* Rule command m returns in this step, and a store call of it has failed.
ReturnsAfterFailure(m) ==
    /\ msgs[m].type \in RuleCommands
    /\ msgs[m].pc # "done"
    /\ msgs'[m].pc = "done"
    /\ msgs'[m].failed

\* C28 as stated: a rule command never destroys other rules on a store
\* failure: when a store call of the command has failed, every stored rule
\* but the command's own is still stored when the command returns; a failed read
\* inside getSettings followed by a successful write does not replace the
\* stored rules.
C28_FailureKeepsRules ==
    [][ \A m \in 1..Len(msgs) :
            ReturnsAfterFailure(m) =>
                { rule \in RulesOf(StoredNow.rules) : rule.id # msgs[m].arg.id }
                    \subseteq RulesOf(DataOrDefault(syncData').settings.rules) ]_vars


----------------------------------------------------------------------------
(* Redirects logged while the store never fails: logRedirects is true, the *)
(* log is empty at first and no CLEAR_LOGS is sent.                        *)

InitLogRace ==
    /\ NoDirectCall
    /\ ServiceConstructed
    /\ syncData = [present |-> TRUE, settings |-> LoggingSettings, logs |-> <<>>]
    /\ localData = NoData

NextLogRace ==
    \/ \E t \in Tabs, u \in NavUrls : UserNavigates(t, 0, u)
    \/ \E t \in Tabs : UpdateNavigates(t)
    \/ \E h \in 1..Len(nav), updateOk \in BOOLEAN : SettingsRead(h, TRUE, updateOk)
    \/ \E h \in 1..Len(nav) : TabUpdated(h)
    \/ \E h \in 1..Len(nav) : LogsRead(h, TRUE)
    \/ \E h \in 1..Len(nav) : LogSyncRead(h, TRUE)
    \/ \E h \in 1..Len(nav) : LogWritten(h, TRUE)

SpecLogRace == InitLogRace /\ [][NextLogRace]_vars

\* Handler h performed a redirect that is to be logged.
PerformedRedirect(h) ==
    /\ IssuedNavigation(h)
    /\ nav[h].updateOk
    /\ nav[h].logRedirects

\* The handlers were started for different tabs.
OnDifferentTabs == \A h, k \in Handlers : h # k => nav[h].tab # nav[k].tab

\* C29 as stated: no lost log entry: when the redirects were on different
\* tabs, then once all handlers have finished every performed redirect has
\* exactly one entry in the log.
C29_NoLostLogEntry ==
    (Running = {} /\ OnDifferentTabs) =>
        \A h \in Handlers :
            PerformedRedirect(h) => Cardinality(StoredEntries(h)) = 1

============================================================================
